---- MODULE Spec2Model ----
(***************************************************************************)
(* A model of branding_guideline.py: the colour extraction, ranking,       *)
(* button-colour extraction and contrast recommendation functions, and the *)
(* scrape_and_analyze pipeline that drives them.                           *)
(*                                                                         *)
(* Python strings are sequences of one-character strings, so that the      *)
(* regular expressions, str.lower, slicing and int(x, 16) are computed     *)
(* character by character as the code computes them.  The word "button"   *)
(* in a stylesheet is the single token "button" (or "BUTTON"): a run of    *)
(* word characters none of which can end a hex colour match.               *)
(*                                                                         *)
(* Luminance is kept exactly, in units of 1/10000: the code's              *)
(* 0.2126*r + 0.7152*g + 0.0722*b is 2126*r + 7152*g + 722*b here and its  *)
(* cutoff 0.5 is 5000.  No 24-bit colour has a luminance at exactly 0.5    *)
(* from white or from black, so floating point rounding never decides the  *)
(* white/black tests.                                                      *)
(***************************************************************************)
EXTENDS Integers, Sequences, FiniteSets, TLC

VARIABLES
    pc,                 \* position of scrape_and_analyze, or the harness in use
    attempts,           \* calls of fetch_website_content made by the retry decorator
    html_content,       \* the fetched page, parsed into its elements
    css_files,          \* what each linked stylesheet's fetch will answer, in order
    css_index,          \* number of stylesheets already fetched
    all_colors,         \* list of colours given to get_top_colors
    css_contents,       \* list of stylesheet texts given to extract_button_colors
    primary_colors,     \* list returned by get_top_colors
    button_colors,      \* list returned by extract_button_colors
    recommended_color,  \* outcome of recommend_button_color
    outcome,            \* how scrape_and_analyze ended
    text,               \* harness: the text blob under construction
    num_colors,         \* harness: the N given to get_top_colors
    alt_button_colors,  \* harness: button colours of a second call
    alt_recommended     \* harness: outcome of the second call

vars == <<pc, attempts, html_content, css_files, css_index, all_colors,
          css_contents, primary_colors, button_colors, recommended_color,
          outcome, text, num_colors, alt_button_colors, alt_recommended>>

-----------------------------------------------------------------------------
(* Bounds of the model *)

MaxPalette == 2      \* colours in a palette handed to the recommender
MaxButtons == 1      \* colours in a button list handed to recommend_button_color
MaxColors == 4       \* colours in a list handed to get_top_colors
MaxN == 2            \* largest N handed to get_top_colors on its own
MaxChunks == 4       \* pieces a text blob is put together from
MaxCss == 2          \* stylesheets a page links

-----------------------------------------------------------------------------
(* Characters and strings *)

HexDigits == {"0","1","2","3","4","5","6","7","8","9",
              "a","b","c","d","e","f","A","B","C","D","E","F"}

\* int(c, 16) for one hexadecimal digit
HexVal(c) ==
    CASE c = "0" -> 0  [] c = "1" -> 1  [] c = "2" -> 2  [] c = "3" -> 3
      [] c = "4" -> 4  [] c = "5" -> 5  [] c = "6" -> 6  [] c = "7" -> 7
      [] c = "8" -> 8  [] c = "9" -> 9
      [] c \in {"a","A"} -> 10 [] c \in {"b","B"} -> 11 [] c \in {"c","C"} -> 12
      [] c \in {"d","D"} -> 13 [] c \in {"e","E"} -> 14 [] c \in {"f","F"} -> 15

\* str.lower on one character
LowerChar(c) ==
    CASE c = "A" -> "a" [] c = "B" -> "b" [] c = "C" -> "c"
      [] c = "D" -> "d" [] c = "E" -> "e" [] c = "F" -> "f"
      [] c = "BUTTON" -> "button"
      [] OTHER -> c

\* str.lower
Lower(s) == [i \in 1..Len(s) |-> LowerChar(s[i])]

Abs(x) == IF x < 0 THEN -x ELSE x

\* the outcome of a call: a returned (colour, justification) pair, a raised
\* exception, or nothing yet
Unset == [kind |-> "unset", color |-> <<>>, reason |-> ""]
Returned(color, reason) == [kind |-> "return", color |-> color, reason |-> reason]
Raised(e) == [kind |-> "raise", color |-> <<>>, reason |-> e]

-----------------------------------------------------------------------------
(* recommend_contrasting_color *)

White == <<"#","f","f","f","f","f","f">>
Black == <<"#","0","0","0","0","0","0">>
DefaultColor == <<"#","2","8","a","7","4","5">>

WhiteReason == "White is a classic choice that ensures high contrast and readability."
BlackReason == "Black is a versatile choice that enhances readability and visual appeal."
DefaultReason == "Default choice for contrast"
VibrantReason == " is a vibrant color that contrasts well with the website's primary colors."

\* the dictionary of rainbow colours, in insertion order
rainbow_colors ==
    << [name |-> "Violet", code |-> <<"#","8","a","2","b","e","2">>],
       [name |-> "Indigo", code |-> <<"#","4","b","0","0","8","2">>],
       [name |-> "Blue",   code |-> <<"#","0","0","0","0","f","f">>],
       [name |-> "Green",  code |-> <<"#","0","0","f","f","0","0">>],
       [name |-> "Yellow", code |-> <<"#","f","f","f","f","0","0">>],
       [name |-> "Orange", code |-> <<"#","f","f","a","5","0","0">>],
       [name |-> "Red",    code |-> <<"#","f","f","0","0","0","0">> ] >>

\* hex_color.lstrip('#')
RECURSIVE LStripMarker(_)
LStripMarker(s) ==
    IF s # <<>> /\ Head(s) = "#" THEN LStripMarker(Tail(s)) ELSE s

\* (int(h[0:2],16), int(h[2:4],16), int(h[4:6],16)) of a colour of 6 digits
hex_to_rgb(hex_color) ==
    LET h == LStripMarker(hex_color)
    IN  << 16 * HexVal(h[1]) + HexVal(h[2]),
           16 * HexVal(h[3]) + HexVal(h[4]),
           16 * HexVal(h[5]) + HexVal(h[6]) >>

\* 0.2126*r + 0.7152*g + 0.0722*b, in units of 1/10000
relative_luminance(rgb_color) ==
    2126 * rgb_color[1] + 7152 * rgb_color[2] + 722 * rgb_color[3]

\* the cutoff 0.5 of the three luminance tests, in units of 1/10000
ContrastThreshold == 5000

\* sorted(rgb_colors, key=relative_luminance)[0]: a colour of least luminance
\* (among equals the sort keeps the first; only its luminance is read)
darkest_color(existing_colors) ==
    LET rgb_colors == {hex_to_rgb(c) : c \in existing_colors}
    IN  CHOOSE d \in rgb_colors :
            \A e \in rgb_colors : relative_luminance(d) <= relative_luminance(e)

\* the loop over rainbow_colors from entry i on: every candidate that differs
\* enough overwrites contrast_color, so the last one stays.  (For 35 of the
\* 2^24 colours the difference to one candidate is exactly 0.5 and floating
\* point rounding decides this test; none of them is among the inputs of the
\* specifications below.)
RECURSIVE RainbowPass(_, _, _)
RainbowPass(darkest, i, contrast) ==
    IF i > Len(rainbow_colors) THEN contrast
    ELSE LET cand == rainbow_colors[i]
             luminance_diff == Abs(relative_luminance(darkest)
                                   - relative_luminance(hex_to_rgb(cand.code)))
         IN  IF luminance_diff > ContrastThreshold
             THEN RainbowPass(darkest, i + 1,
                              Returned(cand.code, cand.name \o VibrantReason))
             ELSE RainbowPass(darkest, i + 1, contrast)

\* a faulty variant: white and black are tried only when the loop chose nothing
WhiteBlackSkippedAfterRainbow(darkest, contrast) ==
    IF contrast.kind = "return" THEN contrast
    ELSE IF Abs(relative_luminance(darkest) - relative_luminance(<<255, 255, 255>>))
               > ContrastThreshold
    THEN Returned(White, WhiteReason)
    ELSE Returned(Black, BlackReason)

\* a faulty variant: black is tried before white
WhiteBlackBlackFirst(darkest, contrast) ==
    IF Abs(relative_luminance(darkest) - relative_luminance(<<0, 0, 0>>))
           > ContrastThreshold
    THEN Returned(Black, BlackReason)
    ELSE Returned(White, WhiteReason)

\* the tests against white and black after the loop, and the fallback
WhiteBlack(darkest, contrast) ==
    IF Abs(relative_luminance(darkest) - relative_luminance(<<255, 255, 255>>))
           > ContrastThreshold
    THEN Returned(White, WhiteReason)
    ELSE IF Abs(relative_luminance(darkest) - relative_luminance(<<0, 0, 0>>))
               > ContrastThreshold
    THEN Returned(Black, BlackReason)
    ELSE IF contrast.kind = "unset"
    THEN Returned(DefaultColor, DefaultReason)
    ELSE contrast

\* recommend_contrasting_color: sorted_colors[0] raises IndexError on an
\* empty collection
recommend_contrasting_color(existing_colors) ==
    IF existing_colors = {} THEN Raised("IndexError")
    ELSE LET darkest == darkest_color(existing_colors)
         IN  WhiteBlack(darkest, RainbowPass(darkest, 1, Unset))

SeqToSet(s) == {s[i] : i \in 1..Len(s)}

\* a faulty variant: the button colours are merged into the existing colours
recommend_button_color_merged(primary, buttons) ==
    recommend_contrasting_color(SeqToSet(primary) \cup SeqToSet(buttons))

\* recommend_button_color: only the primary colours reach the recommender
recommend_button_color(primary, buttons) ==
    recommend_contrasting_color(SeqToSet(primary))

-----------------------------------------------------------------------------
(* extract_colors, expand_color_shorthand *)

\* characters matched by \w: the hex digits, other letters, and the letters
\* of the word "button"
WordChars == HexDigits \cup {"g", "button", "BUTTON"}

\* characters matched by \s
SpaceChars == {" "}

\* positions i+1 .. i+n of s exist and hold hexadecimal digits
HexAt(s, i, n) == \A j \in 1..n : i + j <= Len(s) /\ s[i + j] \in HexDigits

\* \b after the word character at position p
BoundaryAfter(s, p) == p + 1 > Len(s) \/ s[p + 1] \notin WordChars

\* length of the match of #(?:[0-9a-fA-F]{3}){1,2}\b at position i, or 0:
\* the two-group match is tried first, then the one-group match
ColorMatchLen(s, i) ==
    IF s[i] # "#" THEN 0
    ELSE IF HexAt(s, i, 6) /\ BoundaryAfter(s, i + 6) THEN 7
    ELSE IF HexAt(s, i, 3) /\ BoundaryAfter(s, i + 3) THEN 4
    ELSE 0

\* color_pattern.findall(s), scanning from position i
RECURSIVE FindColors(_, _)
FindColors(s, i) ==
    IF i > Len(s) THEN <<>>
    ELSE LET m == ColorMatchLen(s, i)
         IN  IF m > 0 THEN <<SubSeq(s, i, i + m - 1)>> \o FindColors(s, i + m)
             ELSE FindColors(s, i + 1)

\* a faulty variant: the shorthand is expanded by repeating the three digits
expand_color_shorthand_repeat(color) ==
    IF color # <<>> /\ color[1] = "#" /\ Len(color) = 4
    THEN <<"#", color[2], color[3], color[4], color[2], color[3], color[4]>>
    ELSE color

\* expand_color_shorthand: #xyz becomes #xxyyzz, anything else is returned
\* as it is (the case of the digits is kept)
expand_color_shorthand(color) ==
    IF color # <<>> /\ color[1] = "#" /\ Len(color) = 4
    THEN <<"#", color[2], color[2], color[3], color[3], color[4], color[4]>>
    ELSE color

\* extract_colors
extract_colors(css_content) ==
    LET colors == FindColors(css_content, 1)
    IN  [i \in 1..Len(colors) |-> expand_color_shorthand(colors[i])]

-----------------------------------------------------------------------------
(* get_top_colors *)

FilteredColors ==
    { <<"#","f","f","f">>, <<"#","f","f","f","f","f","f">>,
      <<"#","0","0","0">>, <<"#","0","0","0","0","0","0">> }

\* a faulty variant: the filter compares the colour as written
KeptCaseSensitive(color) == color \notin FilteredColors

\* the filter of the list comprehension
Kept(color) == Lower(color) \notin FilteredColors

\* the keys of Counter(colors), in order of first occurrence
RECURSIVE CounterKeys(_)
CounterKeys(colors) ==
    IF colors = <<>> THEN <<>>
    ELSE LET init == SubSeq(colors, 1, Len(colors) - 1)
             last == colors[Len(colors)]
             keys == CounterKeys(init)
         IN  IF last \in SeqToSet(keys) THEN keys ELSE Append(keys, last)

\* Counter(colors)[c]
CountOf(colors, c) == Cardinality({i \in 1..Len(colors) : colors[i] = c})

\* a faulty variant: every entry of the list is ranked, not every key
most_common_of_entries(colors, n) ==
    SubSeq(colors, 1, IF n < Len(colors) THEN n ELSE Len(colors))

\* Counter(colors).most_common(n), keys only: the keys by decreasing count,
\* equal counts in order of first occurrence, cut to n
most_common(colors, n) ==
    LET keys == CounterKeys(colors)
        m == Len(keys)
        \* number of keys sorted before key i
        before(i) == Cardinality({j \in 1..m :
                        \/ CountOf(colors, keys[j]) > CountOf(colors, keys[i])
                        \/ (CountOf(colors, keys[j]) = CountOf(colors, keys[i]) /\ j < i)})
        sorted == [p \in 1..m |-> keys[CHOOSE i \in 1..m : before(i) = p - 1]]
    IN  SubSeq(sorted, 1, IF n < m THEN n ELSE m)

\* get_top_colors
get_top_colors(colors, n) ==
    most_common(SelectSeq(colors, Kept), n)

-----------------------------------------------------------------------------
(* extract_button_colors *)

\* tag names find_all(['button', 'a', 'input']) selects
ButtonTags == {"button", "a", "input"}

\* end of the match of button\s*{[^}]*} (IGNORECASE) at position i, or 0
ButtonBlockEnd(s, i) ==
    IF s[i] \notin {"button", "BUTTON"} THEN 0
    ELSE LET \* first position after the white space that follows the word
             brace == CHOOSE j \in (i + 1)..(Len(s) + 1) :
                         /\ \A k \in (i + 1)..(j - 1) : s[k] \in SpaceChars
                         /\ (j > Len(s) \/ s[j] \notin SpaceChars)
         IN  IF brace > Len(s) \/ s[brace] # "{" THEN 0
             ELSE LET closes == {k \in (brace + 1)..Len(s) : s[k] = "}"}
                  IN  IF closes = {} THEN 0
                      ELSE CHOOSE k \in closes : \A l \in closes : k <= l

\* re.findall(r'button\s*{[^}]*}', s, re.IGNORECASE), scanning from position i
RECURSIVE FindButtonBlocks(_, _)
FindButtonBlocks(s, i) ==
    IF i > Len(s) THEN <<>>
    ELSE LET e == ButtonBlockEnd(s, i)
         IN  IF e > 0 THEN <<SubSeq(s, i, e)>> \o FindButtonBlocks(s, e + 1)
             ELSE FindButtonBlocks(s, i + 1)

\* the colours of the inline styles of the selected elements, from element i on
RECURSIVE InlineButtonColors(_, _)
InlineButtonColors(elements, i) ==
    IF i > Len(elements) THEN <<>>
    ELSE (IF elements[i].tag \in ButtonTags
          THEN FindColors(elements[i].style, 1) ELSE <<>>)
         \o InlineButtonColors(elements, i + 1)

\* the colours of every block of a list of blocks
RECURSIVE BlockColors(_, _)
BlockColors(blocks, i) ==
    IF i > Len(blocks) THEN <<>>
    ELSE FindColors(blocks[i], 1) \o BlockColors(blocks, i + 1)

\* the colours of the button blocks of every stylesheet, from stylesheet i on
RECURSIVE CssButtonColors(_, _)
CssButtonColors(contents, i) ==
    IF i > Len(contents) THEN <<>>
    ELSE BlockColors(FindButtonBlocks(contents[i], 1), 1)
         \o CssButtonColors(contents, i + 1)

\* the size of the slice [:4]
ButtonCap == 4

\* a faulty variant: the list is cut to one entry too many
ButtonSliceLong(S) ==
    LET k == IF Cardinality(S) < ButtonCap + 1 THEN Cardinality(S) ELSE ButtonCap + 1
    IN  {q \in [1..k -> S] : \A i, j \in 1..k : q[i] = q[j] => i = j}

\* list(set(...))[:4]: the order of a set of strings is not fixed by the
\* program, so any ButtonCap distinct members in any order may come out
ButtonSlice(S) ==
    LET k == IF Cardinality(S) < ButtonCap THEN Cardinality(S) ELSE ButtonCap
    IN  {q \in [1..k -> S] : \A i, j \in 1..k : q[i] = q[j] => i = j}

\* extract_button_colors: the set of lists it may return
extract_button_colors(html, contents) ==
    LET found == InlineButtonColors(html.elements, 1) \o CssButtonColors(contents, 1)
    IN  ButtonSlice({expand_color_shorthand(found[i]) : i \in 1..Len(found)})

-----------------------------------------------------------------------------
(* Calls of the recommender on palettes of bounded size *)

\* the values of the variables a specification does not use
NotFetched == [fetched |-> FALSE, empty |-> TRUE, elements |-> <<>>]
NotEnded == [kind |-> "running", exc |-> "", logo |-> "", pdf |-> ""]

\* colours a palette is drawn from: black, near black, the greys around
\* luminance 50 and 205, near white, white, and two saturated colours
PaletteColors ==
    { <<"#","0","0","0","0","0","0">>, <<"#","0","0","0","0","0","1">>,
      <<"#","3","2","3","2","3","2">>, <<"#","3","3","3","3","3","3">>,
      <<"#","c","c","c","c","c","c">>, <<"#","c","d","c","d","c","d">>,
      <<"#","E","E","E","E","E","E">>, <<"#","f","e","f","e","f","e">>,
      <<"#","f","f","f","f","f","e">>, <<"#","f","f","f","f","f","f">>,
      <<"#","f","f","0","0","0","0">>, <<"#","2","8","a","7","4","5">> }

ButtonInputColors ==
    { <<"#","0","0","0","0","0","0">>, <<"#","f","f","f","f","f","f">> }

SeqsUpTo(S, n) == UNION {[1..k -> S] : k \in 0..n}

\* the state before anything has run, at position p
Start(p) ==
    /\ pc = p
    /\ attempts = 0
    /\ html_content = NotFetched
    /\ css_files = <<>>
    /\ css_index = 0
    /\ all_colors = <<>>
    /\ css_contents = <<>>
    /\ primary_colors = <<>>
    /\ button_colors = <<>>
    /\ recommended_color = Unset
    /\ outcome = NotEnded
    /\ text = <<>>
    /\ num_colors = 0
    /\ alt_button_colors = <<>>
    /\ alt_recommended = Unset

InitContrast == Start("palette")

\* one more colour in the palette to be given to the recommender
AddPaletteColor(c) ==
    /\ pc = "palette"
    /\ Len(primary_colors) < MaxPalette
    /\ primary_colors' = Append(primary_colors, c)
    /\ UNCHANGED <<pc, attempts, html_content, css_files, css_index, all_colors,
                   css_contents, button_colors, recommended_color, outcome,
                   text, num_colors, alt_button_colors, alt_recommended>>

\* recommend_contrasting_color(palette)
CallRecommendContrastingColor ==
    /\ pc = "palette"
    /\ pc' = "recommended"
    /\ recommended_color' = recommend_contrasting_color(SeqToSet(primary_colors))
    /\ UNCHANGED <<attempts, html_content, css_files, css_index, all_colors,
                   css_contents, primary_colors, button_colors, outcome,
                   text, num_colors, alt_button_colors, alt_recommended>>

\* recommend_button_color(palette, b1) and recommend_button_color(palette, b2)
CallRecommendButtonColor(b1, b2) ==
    /\ pc = "palette"
    /\ pc' = "recommended_twice"
    /\ button_colors' = b1
    /\ alt_button_colors' = b2
    /\ recommended_color' = recommend_button_color(primary_colors, b1)
    /\ alt_recommended' = recommend_button_color(primary_colors, b2)
    /\ UNCHANGED <<attempts, html_content, css_files, css_index, all_colors,
                   css_contents, primary_colors, outcome, text, num_colors>>

NextContrast ==
    \/ \E c \in PaletteColors : AddPaletteColor(c)
    \/ CallRecommendContrastingColor
    \/ \E b1, b2 \in SeqsUpTo(ButtonInputColors, MaxButtons) :
           CallRecommendButtonColor(b1, b2)

SpecContrast == InitContrast /\ [][NextContrast]_vars

\* least luminance of a non-empty list of colours, in units of 1/10000
MinLuminance(colors) ==
    LET L == {relative_luminance(hex_to_rgb(colors[i])) : i \in 1..Len(colors)}
    IN  CHOOSE d \in L : \A e \in L : d <= e

WhiteLuminance == relative_luminance(<<255, 255, 255>>)

RecommenderCalled == pc \in {"recommended", "recommended_twice"}

C10_WhiteOrBlack ==
    (RecommenderCalled /\ primary_colors # <<>>) =>
        \/ recommended_color = Returned(White, WhiteReason)
        \/ recommended_color = Returned(Black, BlackReason)

\* the rainbow loop had chosen a candidate, and white or black came back
C10_Witness ==
    /\ RecommenderCalled
    /\ primary_colors # <<>>
    /\ RainbowPass(darkest_color(SeqToSet(primary_colors)), 1, Unset).kind = "return"
    /\ recommended_color.color \in {White, Black}

-----------------------------------------------------------------------------
(* Calls of get_top_colors on lists of bounded length *)

\* colour strings a list is drawn from: white and black in both lengths and
\* cases, and other colours in both lengths and cases
RawColors ==
    { <<"#","f","f","f">>, <<"#","F","F","F">>, <<"#","f","F","f","F","f","F">>,
      <<"#","0","0","0">>, <<"#","0","0","0","0","0","0">>,
      <<"#","a","b","c">>, <<"#","A","B","C">>,
      <<"#","a","a","b","b","c","c">>, <<"#","1","2","3","4","5","6">> }

InitRanker == Start("colors")

\* one more colour in the list to be given to get_top_colors
AppendColor(c) ==
    /\ pc = "colors"
    /\ Len(all_colors) < MaxColors
    /\ all_colors' = Append(all_colors, c)
    /\ UNCHANGED <<pc, attempts, html_content, css_files, css_index,
                   css_contents, primary_colors, button_colors, recommended_color,
                   outcome, text, num_colors, alt_button_colors, alt_recommended>>

\* get_top_colors(all_colors, n)
CallGetTopColors(n) ==
    /\ pc \in {"colors", "extracted"}
    /\ pc' = "ranked"
    /\ num_colors' = n
    /\ primary_colors' = get_top_colors(all_colors, n)
    /\ UNCHANGED <<attempts, html_content, css_files, css_index, all_colors,
                   css_contents, button_colors, recommended_color, outcome,
                   text, alt_button_colors, alt_recommended>>

NextRanker ==
    \/ \E c \in RawColors : AppendColor(c)
    \/ \E n \in 0..MaxN : CallGetTopColors(n)

SpecRanker == InitRanker /\ [][NextRanker]_vars

\* C5: the list get_top_colors returns holds neither white nor black (in 3-
\* or 6-digit form, in any case), has at most N entries and no entry twice.
C5_RankerSafe ==
    pc = "ranked" =>
        /\ \A i \in 1..Len(primary_colors) :
               Lower(primary_colors[i]) \notin FilteredColors
        /\ Len(primary_colors) <= num_colors
        /\ \A i, j \in 1..Len(primary_colors) :
               primary_colors[i] = primary_colors[j] => i = j

\* the list held an upper-case white, a colour twice, and more distinct
\* colours than the N >= 1 asked for
C5_Witness ==
    /\ pc = "ranked"
    /\ num_colors >= 1
    /\ \E i \in 1..Len(all_colors) : all_colors[i] = <<"#","F","F","F">>
    /\ \E i, j \in 1..Len(all_colors) :
           i # j /\ all_colors[i] = all_colors[j] /\ Kept(all_colors[i])
    /\ Len(CounterKeys(SelectSeq(all_colors, Kept))) > num_colors
    /\ Len(primary_colors) = num_colors

-----------------------------------------------------------------------------
(* Calls of the extractors on text blobs put together from pieces *)

Chunks ==
    { <<"#","a","b","c">>, <<"#","A","B","C">>,
      <<"#","a","a","b","b","c","c">>,
      <<"#","f","f","f">>, <<"#","0","0","0","0","0","0">>,
      <<"d">>, <<"g">>, <<"}">>,
      <<"button", " ", "{">>, <<"BUTTON", "{">> }

\* the text a list of pieces spells
RECURSIVE Flatten(_)
Flatten(chunks) ==
    IF chunks = <<>> THEN <<>> ELSE Head(chunks) \o Flatten(Tail(chunks))

\* pages given to extract_button_colors: one without elements, and one with a
\* button, a div, a link and an input that carry inline styles
NoElements == [fetched |-> TRUE, empty |-> FALSE, elements |-> <<>>]
StyledElements ==
    [fetched |-> TRUE, empty |-> FALSE,
     elements |-> << [tag |-> "button", style |-> <<"#","1","2","3",";","#","4","5","6","7","8","9">>],
                     [tag |-> "div",    style |-> <<"#","7","8","9">>],
                     [tag |-> "a",      style |-> <<"#","D","E","F">>],
                     [tag |-> "input",  style |-> <<>>] >>]
HtmlDocs == {NoElements, StyledElements}

InitText == Start("text")

\* one more piece at the end of the text
AppendChunk(c) ==
    /\ pc = "text"
    /\ Len(text) < MaxChunks
    /\ text' = Append(text, c)
    /\ UNCHANGED <<pc, attempts, html_content, css_files, css_index, all_colors,
                   css_contents, primary_colors, button_colors, recommended_color,
                   outcome, num_colors, alt_button_colors, alt_recommended>>

\* extract_colors(text)
CallExtractColors ==
    /\ pc = "text"
    /\ pc' = "extracted"
    /\ all_colors' = extract_colors(Flatten(text))
    /\ UNCHANGED <<attempts, html_content, css_files, css_index,
                   css_contents, primary_colors, button_colors, recommended_color,
                   outcome, text, num_colors, alt_button_colors, alt_recommended>>

\* extract_button_colors(doc, [text])
CallExtractButtonColors(doc) ==
    /\ pc = "text"
    /\ pc' = "buttons"
    /\ html_content' = doc
    /\ css_contents' = <<Flatten(text)>>
    /\ button_colors' \in extract_button_colors(doc, <<Flatten(text)>>)
    /\ UNCHANGED <<attempts, css_files, css_index, all_colors,
                   primary_colors, recommended_color,
                   outcome, text, num_colors, alt_button_colors, alt_recommended>>

NextText ==
    \/ \E c \in Chunks : AppendChunk(c)
    \/ CallExtractColors
    \/ \E n \in 0..MaxN : CallGetTopColors(n)
    \/ \E doc \in HtmlDocs : CallExtractButtonColors(doc)

SpecText == InitText /\ [][NextText]_vars

LowerHexDigits == {"0","1","2","3","4","5","6","7","8","9","a","b","c","d","e","f"}

\* '#' followed by exactly 6 lower-case hexadecimal digits
Canonical(color) ==
    /\ Len(color) = 7
    /\ color[1] = "#"
    /\ \A i \in 2..7 : color[i] \in LowerHexDigits

\* the canonical form a colour token denotes
CanonicalForm(color) ==
    Lower(IF Len(color) = 4
          THEN <<"#", color[2], color[2], color[3], color[3], color[4], color[4]>>
          ELSE color)

\* C3: every colour returned by extract_colors, get_top_colors and
\* extract_button_colors is '#' followed by exactly 6 lower-case hexadecimal
\* digits.
C3_AllCanonical ==
    /\ pc \in {"extracted", "ranked"} =>
           \A i \in 1..Len(all_colors) : Canonical(all_colors[i])
    /\ pc = "ranked" =>
           \A i \in 1..Len(primary_colors) : Canonical(primary_colors[i])
    /\ pc = "buttons" =>
           \A i \in 1..Len(button_colors) : Canonical(button_colors[i])

\* C6: the result of extract_button_colors has at most 4 entries and no two
\* entries denote the same canonical colour.
C6_ButtonsDistinctCanonical ==
    pc = "buttons" =>
        /\ Len(button_colors) <= 4
        /\ \A i, j \in 1..Len(button_colors) :
               CanonicalForm(button_colors[i]) = CanonicalForm(button_colors[j])
                   => i = j

-----------------------------------------------------------------------------
(* scrape_and_analyze *)

\* stop_after_attempt(5) of the retry decorator
MaxAttempts == 5

\* the num_colors scrape_and_analyze asks get_top_colors for
TopColors == 5

\* a page whose body is empty: response.content is b''
EmptyBody == [fetched |-> TRUE, empty |-> TRUE, elements |-> <<>>]
Pages == {EmptyBody, NoElements, StyledElements}

\* what fetch_css_content answers for one stylesheet: None after a request
\* error, or the text of the stylesheet
FetchFailed == [ok |-> FALSE, text |-> <<>>]
Fetched(t) == [ok |-> TRUE, text |-> t]
SheetTexts ==
    { <<>>,
      <<"g","{","#","f","f","f",";","#","0","0","0","0","0","0","}">>,
      <<"g","{","#","a","b","c","}","button"," ","{","#","A","B","C",";","#","1","2","3","4","5","6","}">>,
      <<"#","1","2","3","4","5","6",";","#","7","8","9">> }
SheetAnswers == {FetchFailed} \cup {Fetched(t) : t \in SheetTexts}

InPipeline ==
    pc \in {"robots", "fetch", "css", "rank", "buttons", "recommend", "logo",
            "pdf", "done"}

Init == Start("robots")

\* is_scraping_allowed returns True
RobotsAllow ==
    /\ pc = "robots"
    /\ pc' = "fetch"
    /\ UNCHANGED <<attempts, html_content, css_files, css_index, all_colors,
                   css_contents, primary_colors, button_colors, recommended_color,
                   outcome, text, num_colors, alt_button_colors, alt_recommended>>

\* is_scraping_allowed returns False: scrape_and_analyze returns five None
RobotsDeny ==
    /\ pc = "robots"
    /\ pc' = "done"
    /\ outcome' = [outcome EXCEPT !.kind = "none"]
    /\ UNCHANGED <<attempts, html_content, css_files, css_index, all_colors,
                   css_contents, primary_colors, button_colors, recommended_color,
                   text, num_colors, alt_button_colors, alt_recommended>>

\* one attempt of fetch_website_content raises: the decorator waits and tries
\* again, and after the last attempt raises RetryError, which
\* scrape_and_analyze does not catch
FetchPageFails ==
    /\ pc = "fetch"
    /\ attempts < MaxAttempts
    /\ attempts' = attempts + 1
    /\ IF attempts + 1 = MaxAttempts
       THEN /\ pc' = "done"
            /\ outcome' = [outcome EXCEPT !.kind = "raise", !.exc = "RetryError"]
       ELSE UNCHANGED <<pc, outcome>>
    /\ UNCHANGED <<html_content, css_files, css_index, all_colors,
                   css_contents, primary_colors, button_colors, recommended_color,
                   text, num_colors, alt_button_colors, alt_recommended>>

\* one attempt of fetch_website_content returns the page; an empty body is
\* falsy and scrape_and_analyze returns five None; otherwise extract_elements
\* lists the linked stylesheets (sheets: what the fetch of each will answer)
FetchPageSucceeds(page, sheets) ==
    /\ pc = "fetch"
    /\ attempts < MaxAttempts
    /\ attempts' = attempts + 1
    /\ html_content' = page
    /\ IF page.empty
       THEN /\ pc' = "done"
            /\ outcome' = [outcome EXCEPT !.kind = "none"]
            /\ css_files' = <<>>
       ELSE /\ pc' = "css"
            /\ css_files' = sheets
            /\ UNCHANGED outcome
    /\ UNCHANGED <<css_index, all_colors,
                   css_contents, primary_colors, button_colors, recommended_color,
                   text, num_colors, alt_button_colors, alt_recommended>>

\* a faulty variant: the colours of a stylesheet replace those found so far
ColorsAfterSheetReplaced(colors, css_content) == extract_colors(css_content)

\* all_colors.extend(extract_colors(css_content))
ColorsAfterSheet(colors, css_content) == colors \o extract_colors(css_content)

\* the loop body for a stylesheet whose fetch returns its text: an empty text
\* is falsy and is skipped
FetchCssSucceeds ==
    /\ pc = "css"
    /\ css_index < Len(css_files)
    /\ css_files[css_index + 1].ok
    /\ css_index' = css_index + 1
    /\ LET css_content == css_files[css_index + 1].text
       IN  IF css_content # <<>>
           THEN /\ all_colors' = ColorsAfterSheet(all_colors, css_content)
                /\ css_contents' = Append(css_contents, css_content)
           ELSE UNCHANGED <<all_colors, css_contents>>
    /\ UNCHANGED <<pc, attempts, html_content, css_files,
                   primary_colors, button_colors, recommended_color,
                   outcome, text, num_colors, alt_button_colors, alt_recommended>>

\* the loop body for a stylesheet whose fetch fails: fetch_css_content
\* returns None and the stylesheet is skipped
FetchCssFails ==
    /\ pc = "css"
    /\ css_index < Len(css_files)
    /\ ~css_files[css_index + 1].ok
    /\ css_index' = css_index + 1
    /\ UNCHANGED <<pc, attempts, html_content, css_files, all_colors,
                   css_contents, primary_colors, button_colors, recommended_color,
                   outcome, text, num_colors, alt_button_colors, alt_recommended>>

\* primary_colors = get_top_colors(all_colors, 5), after the loop
RankColors ==
    /\ pc = "css"
    /\ css_index = Len(css_files)
    /\ pc' = "buttons"
    /\ primary_colors' = get_top_colors(all_colors, TopColors)
    /\ UNCHANGED <<attempts, html_content, css_files, css_index, all_colors,
                   css_contents, button_colors, recommended_color,
                   outcome, text, num_colors, alt_button_colors, alt_recommended>>

\* button_colors = extract_button_colors(html_content, css_contents)
ExtractButtons ==
    /\ pc = "buttons"
    /\ pc' = "recommend"
    /\ button_colors' \in extract_button_colors(html_content, css_contents)
    /\ UNCHANGED <<attempts, html_content, css_files, css_index, all_colors,
                   css_contents, primary_colors, recommended_color,
                   outcome, text, num_colors, alt_button_colors, alt_recommended>>

\* recommended_color = recommend_button_color(primary_colors, button_colors);
\* an exception it raises ends scrape_and_analyze
Recommend ==
    /\ pc = "recommend"
    /\ LET r == recommend_button_color(primary_colors, button_colors)
       IN  /\ recommended_color' = r
           /\ IF r.kind = "raise"
              THEN /\ pc' = "done"
                   /\ outcome' = [outcome EXCEPT !.kind = "raise", !.exc = r.reason]
              ELSE /\ pc' = "logo"
                   /\ UNCHANGED outcome
    /\ UNCHANGED <<attempts, html_content, css_files, css_index, all_colors,
                   css_contents, primary_colors, button_colors,
                   text, num_colors, alt_button_colors, alt_recommended>>

\* logo_path = download_logo(domain): the path of the file, or None
DownloadLogo(path) ==
    /\ pc = "logo"
    /\ pc' = "pdf"
    /\ outcome' = [outcome EXCEPT !.logo = path]
    /\ UNCHANGED <<attempts, html_content, css_files, css_index, all_colors,
                   css_contents, primary_colors, button_colors, recommended_color,
                   text, num_colors, alt_button_colors, alt_recommended>>

\* pdf_path = create_pdf(...), and the return of the five results
CreatePdf ==
    /\ pc = "pdf"
    /\ pc' = "done"
    /\ outcome' = [outcome EXCEPT !.kind = "return", !.pdf = "branding_guidelines.pdf"]
    /\ UNCHANGED <<attempts, html_content, css_files, css_index, all_colors,
                   css_contents, primary_colors, button_colors, recommended_color,
                   text, num_colors, alt_button_colors, alt_recommended>>

Next ==
    \/ RobotsAllow
    \/ RobotsDeny
    \/ FetchPageFails
    \/ \E page \in Pages, sheets \in SeqsUpTo(SheetAnswers, MaxCss) :
           FetchPageSucceeds(page, sheets)
    \/ FetchCssSucceeds
    \/ FetchCssFails
    \/ RankColors
    \/ ExtractButtons
    \/ Recommend
    \/ \E path \in {"None", "logo.png"} : DownloadLogo(path)
    \/ CreatePdf

Spec == Init /\ [][Next]_vars

\* the colours extract_colors finds in the text of a page: those of the style
\* attributes of all its elements, from element i on
RECURSIVE HtmlColors(_, _)
HtmlColors(elements, i) ==
    IF i > Len(elements) THEN <<>>
    ELSE extract_colors(elements[i].style) \o HtmlColors(elements, i + 1)

\* the colours of the first n stylesheets whose fetch returned a text
RECURSIVE SheetColors(_, _)
SheetColors(sheets, n) ==
    IF n = 0 THEN <<>>
    ELSE SheetColors(sheets, n - 1)
         \o (IF sheets[n].ok THEN extract_colors(sheets[n].text) ELSE <<>>)

\* C2: with an empty primary palette the recommendation is skipped or ends
\* in a handled condition: recommend_contrasting_color does not index an
\* empty sequence and scrape_and_analyze does not end with an exception.
C2_EmptyPaletteHandled ==
    (InPipeline /\ primary_colors = <<>>) =>
        /\ recommended_color.kind # "raise"
        /\ ~(outcome.kind = "raise" /\ outcome.exc = "IndexError")

\* C4: when every attempt to fetch the page has failed, scrape_and_analyze
\* ends by returning five None, not with an exception, and no stylesheet is
\* fetched, no logo downloaded and no PDF created.
C4_FetchFailureReturnsNone ==
    (pc = "done" /\ attempts = MaxAttempts /\ ~html_content.fetched) =>
        /\ outcome.kind = "none"
        /\ css_index = 0
        /\ outcome.logo = ""
        /\ outcome.pdf = ""

\* C7 as stated: every hex colour token of the page's HTML, other than white
\* and black, is in the list given to the ranker.
C7_HtmlColorsRanked ==
    (pc \in {"buttons", "recommend", "logo", "pdf"}) =>
        LET html_colors == HtmlColors(html_content.elements, 1)
        IN  \A i \in 1..Len(html_colors) :
                Kept(html_colors[i]) => html_colors[i] \in SeqToSet(all_colors)

\* C7 amended: the list given to the ranker is built from the fetched
\* stylesheet texts alone, in the order of their links: it is the colours of
\* the stylesheets fetched so far, whatever the HTML holds.
C7_OnlySheetColorsRanked ==
    InPipeline =>
        /\ all_colors = SheetColors(css_files, css_index)
        /\ pc \in {"buttons", "recommend", "logo", "pdf"} =>
               primary_colors = get_top_colors(SheetColors(css_files, Len(css_files)),
                                               TopColors)

\* the ranker ran on a page whose HTML holds a colour, other than white and
\* black, that no stylesheet holds, after two stylesheets with colours
C7_Witness ==
    /\ pc = "recommend"
    /\ Len(css_contents) >= 2
    /\ primary_colors # <<>>
    /\ \E i \in 1..Len(html_content.elements) :
           \E c \in SeqToSet(extract_colors(html_content.elements[i].style)) :
               Kept(c) /\ c \notin SeqToSet(all_colors)

\* C8: when the fetch of a stylesheet has failed the run still goes through
\* ranking, button extraction and the later steps, and returns its results.
C8_SheetFailureHarmless ==
    (pc = "done" /\ \E i \in 1..css_index : ~css_files[i].ok) =>
        outcome.kind = "return"

====
